---------------------------- MODULE Spec2Model ----------------------------
(***************************************************************************)
(* A model of bin/report.py: the nose XML loader, the known-failure        *)
(* registry merge, the classifier, the detailed aggregation table and the  *)
(* CSV report.                                                             *)
(*                                                                         *)
(* Conventions.  A Python dict is a TLA+ function whose DOMAIN is the key  *)
(* set; a Python list is a sequence; None is the value None below.  A      *)
(* test identifier ("<classname>.<name>") is an element of Tests.  A text  *)
(* is a sequence of one-character strings.                                 *)
(***************************************************************************)
EXTENDS Integers, Sequences, FiniteSets, TLC

VARIABLES
    pc,          \* position of the main script (report.py:239-286)
    results,     \* results: test identifier -> outcome record
    last,        \* <<tc>>: the <testcase> element load_nose_xml handled last
    kfs,         \* kfs = all_kfs.get('ceph_s3', {})
    csv_out,     \* the rows csv_report has written to stdout
    attributes,  \* the attribute index loaded from the --detailed file
    pool,        \* detailed_results_table: the working copy of results
    totals,      \* detailed_results_table: totals
    all_codes,   \* detailed_results_table: all_codes (codes seen so far)
    table,       \* detailed_results_table: table
    flag_table,  \* detailed_results_table: flag_table
    idx,         \* detailed_results_table: position in the current loop
    calls,       \* log of the get_row calls made so far, in call order
    heap,        \* dict_merge: the dict objects, by address
    ma,          \* dict_merge: argument a
    mb,          \* dict_merge: argument b
    mres,        \* dict_merge: the returned value
    snap         \* dict_merge: the contents of a and b before the call

vars == <<pc, results, last, kfs, csv_out, attributes, pool, totals,
          all_codes, table, flag_table, idx, calls, heap, ma, mb, mres, snap>>

tableVars == <<attributes, pool, totals, all_codes, table, flag_table,
               idx, calls>>
mergeVars == <<heap, ma, mb, mres, snap>>

-----------------------------------------------------------------------------
(* Bounds *)

MaxTests == 2

MaxEntries == 3

\* the test identifiers: class name and test name (line 53)
Tests == {<<"TestS3", n>> : n \in 1..MaxTests}

-----------------------------------------------------------------------------
(* Values *)

None == <<"None">>

result_types == <<"PASS", "NEW_FAILURE", "KNOWN_FAILURE", "SKIP">>

ResultTypeSet == {result_types[i] : i \in 1..Len(result_types)}

\* Python's d[k] = v on a dict d
DictSet(d, k, v) == [x \in (DOMAIN d) \cup {k} |-> IF x = k THEN v ELSE d[x]]

\* Python's del d[k]
DictDel(d, k) == [x \in (DOMAIN d) \ {k} |-> d[x]]

EmptyDict == [x \in {} |-> None]

Min(a, b) == IF a < b THEN a ELSE b

-----------------------------------------------------------------------------
(* load_nose_xml *)

MsgPrefixLen == 20

\* the message attributes the model gives to <failure> and <error> nodes
Texts == { <<>>,
           <<"E", "r", "r">>,
           <<"E", "r", "\n", "a", "t">> }

\* text.find('\n'), as a 1-based position; 0 when there is no newline
FindNewline(text) ==
    IF \E i \in 1..Len(text) : text[i] = "\n"
    THEN CHOOSE i \in 1..Len(text) :
            /\ text[i] = "\n"
            /\ \A j \in 1..(i-1) : text[j] # "\n"
    ELSE 0

extract_message(text) ==
    IF text = <<>> THEN None
    ELSE LET end == FindNewline(text)
         IN  IF end # 0
             THEN SubSeq(text, 1, end - 1)
             ELSE SubSeq(text, 1, Min(MsgPrefixLen, Len(text)))
                      \o <<".", ".", ".">>

\* A <testcase> element: its identifier, its time attribute, and its
\* failure, error and skipped children.  nf, ne, ns are len(failures),
\* len(errors), len(skipped), where 2 stands for "more than one"; fmsg and
\* emsg are the message attributes of failures[0] and errors[0].
ChildCounts == {0, 1, 2}

Times == {"0.01"}

NodeMsgs(n) == IF n = 1 THEN Texts ELSE {<<>>}

Testcases ==
    { [name |-> t, time |-> tm, nf |-> f, ne |-> e, ns |-> s,
       fmsg |-> fm, emsg |-> em] :
         t \in Tests, tm \in Times, f \in ChildCounts, e \in ChildCounts,
         s \in ChildCounts, fm \in Texts, em \in Texts }

WellFormedCase(tc) == tc.fmsg \in NodeMsgs(tc.nf) /\ tc.emsg \in NodeMsgs(tc.ne)

\* the three assertions of the loop body: each holds or is not reached
AssertsHold(tc) ==
    /\ (tc.nf # 0 => tc.nf = 1)
    /\ (tc.ne # 0 => tc.ne = 1)
    /\ (tc.ns # 0 => tc.ns = 1)

\* a faulty loader: a failure or an error child decides before a skipped one
CaseResultFailFirst(tc) ==
    IF tc.nf # 0 \/ tc.ne # 0 THEN "FAIL"
    ELSE IF tc.ns # 0 THEN "SKIP" ELSE "PASS"

\* the result the loop body computes for one element (lines 51-71)
CaseResult(tc) ==
    LET r0 == "PASS"
        r1 == IF tc.nf # 0 THEN "FAIL" ELSE r0
        r2 == IF tc.ne # 0 THEN "FAIL" ELSE r1
        r3 == IF tc.ns # 0 THEN "SKIP" ELSE r2
    IN  r3

\* the message the loop body computes for one element (lines 52-66)
CaseMessage(tc) ==
    LET m0 == None
        m1 == IF tc.nf # 0 THEN extract_message(tc.fmsg) ELSE m0
        m2 == IF tc.ne # 0 THEN extract_message(tc.emsg) ELSE m1
    IN  m2

\* the record of lines 73-76
CaseRecord(tc) ==
    [name |-> tc.name, result |-> CaseResult(tc),
     message |-> CaseMessage(tc), time |-> tc.time]

Init ==
    /\ pc = "load"
    /\ results = EmptyDict
    /\ last = <<>>
    /\ kfs = EmptyDict
    /\ csv_out = <<>>
    /\ attributes = None /\ pool = None /\ totals = None /\ all_codes = None
    /\ table = None /\ flag_table = None /\ idx = 0 /\ calls = <<>>
    /\ heap = <<>> /\ ma = None /\ mb = None /\ mres = None /\ snap = None

\* one iteration of the loop over the <testcase> elements
LoadTestcase ==
    /\ pc = "load"
    /\ \E tc \in Testcases :
         /\ WellFormedCase(tc)
         /\ last' = <<tc>>
         /\ IF AssertsHold(tc)
            THEN /\ results' = DictSet(results, tc.name, CaseRecord(tc))
                 /\ pc' = "load"
            ELSE /\ results' = EmptyDict \* AssertionError: nothing is returned,
                 /\ pc' = "aborted"      \* the script ends here
    /\ UNCHANGED <<kfs, csv_out, tableVars, mergeVars>>

\* the loop is over: return results
LoadReturn ==
    /\ pc = "load"
    /\ pc' = "known_failures"
    /\ last' = <<>>
    /\ UNCHANGED <<results, kfs, csv_out, tableVars, mergeVars>>

-----------------------------------------------------------------------------
(* The known-failure registry and the classifier (lines 241-261) *)

\* the entries a catalogue gives a test under ceph_s3: a status, and
\* optionally a footnote code
Statuses == {"KNOWN", "FLAKY"}

Registries(entries) ==
    UNION { [D -> entries] : D \in SUBSET Tests }

\* the entries the main script's registry is drawn from
MainEntries == [{"status"} -> Statuses] \cup {[status |-> "KNOWN", code |-> "c1"]}

\* lines 241-245: the catalogues are merged and kfs is the ceph_s3 mapping;
\* with no catalogue, all_kfs = {} and kfs = {}
LoadKnownFailures ==
    /\ pc = "known_failures"
    /\ \E k \in Registries(MainEntries) : kfs' = k
    /\ pc' = "classify"
    /\ UNCHANGED <<results, last, csv_out, tableVars, mergeVars>>

\* a faulty classifier: the entry's status is not looked at
ClassifyKnownAsNew(test, rec, k) ==
    IF rec.result = "SKIP" THEN "SKIP"
    ELSE IF test \notin DOMAIN k
         THEN IF rec.result = "FAIL" THEN "NEW_FAILURE" ELSE "PASS"
         ELSE IF rec.result = "FAIL" THEN "NEW_FAILURE" ELSE "PASS"

\* the report computed by the body of the classification loop (lines
\* 247-261); r0 is the 'PASS' of line 247
Classify(test, rec, k) ==
    LET r0 == "PASS"
    IN  IF rec.result = "SKIP" THEN "SKIP"
        ELSE IF test \notin DOMAIN k
             THEN IF rec.result = "FAIL" THEN "NEW_FAILURE" ELSE r0
             ELSE IF rec.result = "FAIL"
                  THEN IF k[test]["status"] = "KNOWN"
                       THEN "KNOWN_FAILURE"
                       ELSE r0
                  ELSE r0

\* rec['report'] = ...
WithReport(rec, report) ==
    [name |-> rec.name, result |-> rec.result, message |-> rec.message,
     time |-> rec.time, report |-> report]

Classified(rec) == "report" \in DOMAIN rec

\* one iteration of the classification loop; the dict's iteration order is
\* not fixed, so the next record is any record not yet visited
ClassifyRecord ==
    /\ pc = "classify"
    /\ \E test \in DOMAIN results :
         /\ ~Classified(results[test])
         /\ results' = DictSet(results, test,
                          WithReport(results[test],
                                     Classify(test, results[test], kfs)))
    /\ UNCHANGED <<pc, last, kfs, csv_out, tableVars, mergeVars>>

\* the classification loop is over; the script goes on to csv_report
\* (args.format == 'csv', no --detailed)
ClassifyDone ==
    /\ pc = "classify"
    /\ \A test \in DOMAIN results : Classified(results[test])
    /\ pc' = "csv"
    /\ UNCHANGED <<results, last, kfs, csv_out, tableVars, mergeVars>>

-----------------------------------------------------------------------------
(* csv_report *)

fieldnames == <<"name", "result", "report", "message">>

FieldnameSet == {fieldnames[i] : i \in 1..Len(fieldnames)}

\* csv.DictWriter.writerow with the default extrasaction='raise': a key of
\* the row that is no field name raises ValueError; a missing key is
\* written as the empty string (restval)
RowAccepted(row) == DOMAIN row \subseteq FieldnameSet

RowCells(row) ==
    [i \in 1..Len(fieldnames) |->
        IF fieldnames[i] \in DOMAIN row THEN row[fieldnames[i]] ELSE <<>>]

\* the tests whose row has been written
Written == { csv_out[i][1] : i \in 2..Len(csv_out) }

CsvWriteHeader ==
    /\ pc = "csv"
    /\ csv_out' = <<fieldnames>>
    /\ pc' = "csv_rows"
    /\ UNCHANGED <<results, last, kfs, tableVars, mergeVars>>

\* one iteration of the loop of csv_report, or its end
CsvWriteRow ==
    /\ pc = "csv_rows"
    /\ IF DOMAIN results \subseteq Written
       THEN /\ pc' = "done"
            /\ csv_out' = csv_out
       ELSE \E test \in (DOMAIN results) \ Written :
               IF RowAccepted(results[test])
               THEN /\ csv_out' = Append(csv_out, RowCells(results[test]))
                    /\ pc' = "csv_rows"
               ELSE /\ csv_out' = csv_out   \* ValueError
                    /\ pc' = "csv_error"
    /\ UNCHANGED <<results, last, kfs, tableVars, mergeVars>>

-----------------------------------------------------------------------------
(* detailed_results_table and get_row *)

\* codes = all_kfs.get('codes', {}): footnote code -> explanation
codes == [c \in {"c1", "c2"} |-> IF c = "c1" THEN "not implemented"
                                          ELSE "server bug"]

\* sorted(current_codes): the catalogue's codes in string order
CodeOrder == <<"c1", "c2">>

\* the groups of the attribute index of the model; sorted(flags), and
\* sorted(..., key=str.lower) of the methods and of the resources
SortedFlags == <<"fA">>

SortedMethods == <<"get", "PUT">>

SortedResources == <<"bucket">>

SeqToSet(q) == {q[i] : i \in 1..Len(q)}

\* the (method, resource) pairs in the order of the nested loops (182-183)
RECURSIVE PairsFrom(_, _)
PairsFrom(mi, ri) ==
    IF mi > Len(SortedMethods) THEN <<>>
    ELSE IF ri > Len(SortedResources) THEN PairsFrom(mi + 1, 1)
    ELSE <<[method |-> SortedMethods[mi], resource |-> SortedResources[ri]]>>
            \o PairsFrom(mi, ri + 1)

Pairs == PairsFrom(1, 1)

\* The cells of the table.  A string is a sequence of pieces: a literal, or
\* a rendered footnote [ref, text].  Every cell is a record of one shape:
\* Text for a string, Count for a count, Pct for "%.1f%%" of a percentage (n
\* is the percentage in tenths, rounded), Frac for '%d/%d', NoneCell for
\* None.
Piece(x) == [ref |-> "", text |-> x]

Text(pieces) == [kind |-> "str", s |-> pieces, n |-> 0, d |-> 0]

Count(n) == [kind |-> "int", s |-> <<>>, n |-> n, d |-> 0]

Pct(n) == [kind |-> "pct", s |-> <<>>, n |-> n, d |-> 0]

Frac(n, d) == [kind |-> "frac", s |-> <<>>, n |-> n, d |-> d]

NoneCell == [kind |-> "None", s |-> <<>>, n |-> 0, d |-> 0]

header ==
    LET titles == <<"Category", "Pass", "New Failure", "Known Failure",
                    "Skip", "Pass %", "Tests Passed", "Notes">>
    IN  [i \in 1..Len(titles) |-> Text(<<Piece(titles[i])>>)]

\* "%.1f%%" % (float(passed)/total*100): the percentage in tenths, rounded
PctTenths(passed, total) == (2 * 1000 * passed + total) \div (2 * total)

result_passed(passed, total) ==
    IF total # 0
    THEN << Pct(PctTenths(passed, total)), Frac(passed, total) >>
    ELSE << Text(<<Piece("N/A")>>) >>

ZeroCounter == [rt \in ResultTypeSet |-> 0]

RECURSIVE SumOver(_, _)
SumOver(f, S) ==
    IF S = {} THEN 0
    ELSE LET x == CHOOSE y \in S : TRUE IN f[x] + SumOver(f, S \ {x})

\* a faulty get_row: the counted element stays in results
DelElementKept(res, element) == res

\* lines 142-143: if results: del results[element]

DelElement(res, element) ==
    IF DOMAIN res # {} THEN DictDel(res, element) ELSE res

\* lines 135-141: the code of the element's known-failure entry joins
\* current_codes when it is in the codes catalogue; a KeyError is passed
CollectCode(current_codes, rec) ==
    IF rec.name \in DOMAIN kfs /\ "code" \in DOMAIN kfs[rec.name]
    THEN LET code == kfs[rec.name]["code"]
         IN  IF code \in DOMAIN codes
             THEN current_codes \cup {code}
             ELSE current_codes
    ELSE current_codes

\* the body of the loop over elements (lines 132-143)
RowStep(element, st) ==
    IF element \notin DOMAIN st.results THEN st
    ELSE [ result_counter |->
              [st.result_counter EXCEPT ![st.results[element].report] = @ + 1],
           current_codes |-> CollectCode(st.current_codes, st.results[element]),
           results |-> DelElement(st.results, element),
           counted |-> st.counted \cup {element} ]

RECURSIVE RowLoop(_, _)
RowLoop(elements, st) ==
    IF elements = {} THEN st
    ELSE LET element == CHOOSE x \in elements : TRUE
         IN  RowLoop(elements \ {element}, RowStep(element, st))

\* '<ref name="%s">%s</ref>' % (code, codes[code]) and '<ref name="%s"/>' % code
RefDef(code) == [ref |-> code, text |-> codes[code]]

RefBack(code) == [ref |-> code, text |-> ""]

\* lines 153-160: the loop over sorted(current_codes); st holds code_string
\* (a string: a sequence of pieces, "" being the empty one) and all_codes
RECURSIVE NotesLoop(_, _)
NotesLoop(sorted_codes, st) ==
    IF sorted_codes = <<>> THEN st
    ELSE LET code == Head(sorted_codes)
         IN  NotesLoop(Tail(sorted_codes),
                IF code \notin st.all_codes
                THEN [code_string |-> <<RefDef(code)>>,
                      all_codes |-> st.all_codes \cup {code}]
                ELSE [code_string |-> <<RefBack(code)>>,
                      all_codes |-> st.all_codes])

Sorted(order, S) == SelectSeq(order, LAMBDA c : c \in S)

\* get_row(name, elements, totals, results, codes, all_codes): the row
\* returned, and totals, results and all_codes as the call leaves them;
\* counted and current_codes are the elements it counted and the codes it
\* collected
get_row(name, elements, tot, res, all) ==
    LET loop == RowLoop(elements,
                    [result_counter |-> ZeroCounter, current_codes |-> {},
                     results |-> res, counted |-> {}])
        counts == [i \in 1..Len(result_types) |->
                      Count(loop.result_counter[result_types[i]])]
        notes == NotesLoop(Sorted(CodeOrder, loop.current_codes),
                    [code_string |-> <<>>, all_codes |-> all])
    IN  [ row |-> <<Text(name)>> \o counts
                    \o result_passed(loop.result_counter["PASS"],
                                     SumOver(loop.result_counter, ResultTypeSet))
                    \o <<Text(notes.code_string)>>,
          totals |-> [rt \in ResultTypeSet |->
                         tot[rt] + loop.result_counter[rt]],
          results |-> loop.results,
          all_codes |-> notes.all_codes,
          counted |-> loop.counted,
          current_codes |-> loop.current_codes ]

\* what calls logs of a get_row call
CallLog(r) ==
    [row |-> r.row, counted |-> r.counted, current_codes |-> r.current_codes]

\* a faulty emit condition: if len(results)
EmitRowIfLeft(old_length, new_length) == new_length # 0

\* line 190: if old_length - len(results)

EmitRow(old_length, new_length) == old_length - new_length # 0

\* the outcome records and registry entries the table's inputs are drawn
\* from: for each test, whether it was run, its result, and its entry (a
\* test that was not run may still be named by the attribute index; c9 is a
\* code the codes catalogue does not hold)
Profiles ==
    { [run |-> FALSE, result |-> "PASS", entry |-> <<>>],
      [run |-> TRUE,  result |-> "PASS",
       entry |-> <<[status |-> "KNOWN", code |-> "c9"]>>],
      [run |-> TRUE,  result |-> "FAIL", entry |-> <<>>],
      [run |-> TRUE,  result |-> "FAIL",
       entry |-> <<[status |-> "KNOWN", code |-> "c1"]>>],
      [run |-> TRUE,  result |-> "SKIP",
       entry |-> <<[status |-> "FLAKY", code |-> "c2"]>>] }

ProfileRegistry(prof) ==
    [t \in {x \in Tests : prof[x].entry # <<>>} |-> prof[t].entry[1]]

ProfileResults(prof) ==
    [t \in {x \in Tests : prof[x].run} |->
        LET rec == [name |-> t, result |-> prof[t].result,
                    message |-> None, time |-> "0.01"]
        IN  WithReport(rec, Classify(t, rec, ProfileRegistry(prof)))]

\* the attribute indexes: with or without a flags group; the flag and the
\* methods hold any tests, the resource holds every test
AttributeIndexes ==
    { [flags |-> f, method |-> m, resource |-> r] :
          f \in [SeqToSet(SortedFlags) -> SUBSET Tests],
          m \in [SeqToSet(SortedMethods) -> SUBSET Tests],
          r \in [SeqToSet(SortedResources) -> {Tests}] }
      \cup
    { [method |-> m, resource |-> r] :
          m \in [SeqToSet(SortedMethods) -> SUBSET Tests],
          r \in [SeqToSet(SortedResources) -> {Tests}] }

\* detailed_results_table is entered with the classified results, the
\* registry and an attribute index; lines 167-175 have run
InitTable ==
    /\ \E prof \in [Tests -> Profiles] :
          /\ results = ProfileResults(prof)
          /\ kfs = ProfileRegistry(prof)
          /\ pool = ProfileResults(prof)
    /\ attributes \in AttributeIndexes
    /\ pc = IF "flags" \in DOMAIN attributes THEN "flags" ELSE "method_resource"
    /\ totals = ZeroCounter
    /\ all_codes = {}
    /\ table = <<header>>
    /\ flag_table = <<>>
    /\ idx = 1
    /\ calls = <<>>
    /\ last = <<>> /\ csv_out = <<>>
    /\ heap = <<>> /\ ma = None /\ mb = None /\ mres = None /\ snap = None

\* one iteration of the loop over the flags (lines 177-180)
FlagRow ==
    /\ pc = "flags"
    /\ LET flag == SortedFlags[idx]
           r == get_row(<<Piece(flag)>>, attributes["flags"][flag],
                        totals, pool, all_codes)
       IN  /\ flag_table' = Append(flag_table, r.row)
           /\ totals' = r.totals
           /\ pool' = r.results
           /\ all_codes' = r.all_codes
           /\ calls' = Append(calls, CallLog(r))
    /\ IF idx = Len(SortedFlags)
       THEN pc' = "method_resource" /\ idx' = 1
       ELSE pc' = "flags" /\ idx' = idx + 1
    /\ UNCHANGED <<results, last, kfs, csv_out, attributes, table, mergeVars>>

\* one iteration of the nested loops over methods and resources (182-191)
MethodResourceRow ==
    /\ pc = "method_resource"
    /\ LET method == Pairs[idx].method
           resource == Pairs[idx].resource
           intersection == attributes["method"][method]
                              \cap attributes["resource"][resource]
           old_length == Cardinality(DOMAIN pool)
           r == get_row(<<Piece(method), Piece(" "), Piece(resource)>>,
                        intersection, totals, pool, all_codes)
       IN  IF intersection # {}
           THEN /\ totals' = r.totals
                /\ pool' = r.results
                /\ all_codes' = r.all_codes
                /\ calls' = Append(calls, CallLog(r))
                /\ table' = IF EmitRow(old_length, Cardinality(DOMAIN r.results))
                            THEN Append(table, r.row)
                            ELSE table
           ELSE UNCHANGED <<totals, pool, all_codes, calls, table>>
    /\ IF idx = Len(Pairs)
       THEN pc' = "other" /\ idx' = 1
       ELSE pc' = "method_resource" /\ idx' = idx + 1
    /\ UNCHANGED <<results, last, kfs, csv_out, attributes, flag_table, mergeVars>>

\* lines 193-196: the flag rows are appended, then the "other" row
OtherRow ==
    /\ pc = "other"
    /\ LET r == get_row(<<Piece("other")>>, DOMAIN pool, totals, pool,
                        all_codes)
       IN  /\ table' = Append(table \o flag_table, r.row)
           /\ totals' = r.totals
           /\ pool' = r.results
           /\ all_codes' = r.all_codes
           /\ calls' = Append(calls, CallLog(r))
    /\ pc' = "total"
    /\ UNCHANGED <<results, last, kfs, csv_out, attributes, flag_table, idx,
                   mergeVars>>

\* lines 198-202: the "Total" row is appended and the table returned
TotalRow ==
    /\ pc = "total"
    /\ table' = Append(table,
                  <<Text(<<Piece("Total")>>)>>
                    \o [i \in 1..Len(result_types) |->
                           Count(totals[result_types[i]])]
                    \o result_passed(totals["PASS"],
                                     SumOver(totals, ResultTypeSet))
                    \o <<NoneCell>>)
    /\ pc' = "table_done"
    /\ UNCHANGED <<results, last, kfs, csv_out, attributes, pool, totals,
                   all_codes, flag_table, idx, calls, mergeVars>>

NextTable == FlagRow \/ MethodResourceRow \/ OtherRow \/ TotalRow

SpecTable == InitTable /\ [][NextTable]_vars

-----------------------------------------------------------------------------
(* dict_merge *)

(***************************************************************************)
(* Python values are references: a dict is an object of the heap, and two  *)
(* variables may name the same object.  heap[n] is the dict at address n,  *)
(* a function from its keys to values; a value is a scalar or the address  *)
(* of a dict.  The contents of a value, with the addresses followed, is a  *)
(* tree: a scalar or a mapping from keys to trees.                         *)
(***************************************************************************)
Keys == {"k1", "k2"}

SVal(x) == [tag |-> "scalar", val |-> x, addr |-> 0]

DVal(n) == [tag |-> "dict", val |-> "", addr |-> n]

\* a variable that is not bound yet
Unbound == [tag |-> "unbound", val |-> "", addr |-> 0]

STree(x) == [tag |-> "scalar", val |-> x]

DTree(f) == [tag |-> "dict", items |-> f]

IsDict(v) == v.tag = "dict"

\* the number of key entries of a tree, nested ones included
RECURSIVE TreeSize(_)
TreeSize(tree) ==
    IF ~IsDict(tree) THEN 0
    ELSE LET f == tree.items
             sz == [k \in DOMAIN f |-> 1 + TreeSize(f[k])]
         IN  SumOver(sz, DOMAIN f)

\* the mappings over the given scalars with at most n entries
RECURSIVE Mappings(_, _)
Mappings(scalars, n) ==
    LET vals == IF n = 0 THEN {}
                ELSE {STree(x) : x \in scalars} \cup Mappings(scalars, n - 1)
    IN  { t \in { DTree(f) : f \in UNION {[K -> vals] : K \in SUBSET Keys} } :
             TreeSize(t) <= n }

\* the contents of a value
RECURSIVE Deref(_, _)
Deref(h, v) ==
    IF ~IsDict(v) THEN STree(v.val)
    ELSE DTree([k \in DOMAIN h[v.addr] |-> Deref(h, h[v.addr][k])])

\* a tree put on the heap as fresh objects: the new heap and the value
RECURSIVE Build(_, _)
RECURSIVE BuildItems(_, _, _, _)
BuildItems(h, n, f, keys) ==
    IF keys = {} THEN h
    ELSE LET k == CHOOSE x \in keys : TRUE
             c == Build(h, f[k])
         IN  BuildItems([c.heap EXCEPT ![n] = DictSet(@, k, c.val)],
                        n, f, keys \ {k})

Build(h, tree) ==
    IF ~IsDict(tree) THEN [heap |-> h, val |-> SVal(tree.val)]
    ELSE LET n == Len(h) + 1
         IN  [heap |-> BuildItems(Append(h, <<>>), n, tree.items,
                                  DOMAIN tree.items),
              val |-> DVal(n)]

\* copy.deepcopy(v): a scalar is itself; a dict is a new dict whose values
\* are the deep copies of v's
RECURSIVE deepcopy(_, _)
RECURSIVE CopyItems(_, _, _, _)
CopyItems(h, n, src, keys) ==
    IF keys = {} THEN h
    ELSE LET k == CHOOSE x \in keys : TRUE
             c == deepcopy(h, h[src][k])
         IN  CopyItems([c.heap EXCEPT ![n] = DictSet(@, k, c.val)],
                       n, src, keys \ {k})

\* a faulty copy: the value itself, no new object
deepcopyAlias(h, v) == [heap |-> h, val |-> v]

deepcopy(h, v) ==
    IF ~IsDict(v) THEN [heap |-> h, val |-> v]
    ELSE LET n == Len(h) + 1
         IN  [heap |-> CopyItems(Append(h, <<>>), n, v.addr, DOMAIN h[v.addr]),
              val |-> DVal(n)]

\* dict_merge(a, b): the new heap and the value returned
RECURSIVE dict_merge(_, _, _)
RECURSIVE MergeItems(_, _, _, _)
\* the loop over b.iteritems() (lines 20-24); result is the dict at address n
MergeItems(h, n, bn, keys) ==
    IF keys = {} THEN h
    ELSE LET k == CHOOSE x \in keys : TRUE
             v == h[bn][k]
             m == IF k \in DOMAIN h[n] /\ IsDict(h[n][k])
                  THEN dict_merge(h, h[n][k], v)
                  ELSE deepcopy(h, v)
         IN  MergeItems([m.heap EXCEPT ![n] = DictSet(@, k, m.val)],
                        n, bn, keys \ {k})

dict_merge(h, a, b) ==
    IF ~IsDict(b) THEN [heap |-> h, val |-> b]
    ELSE LET result == deepcopy(h, a)
         IN  [heap |-> MergeItems(result.heap, result.val.addr, b.addr,
                                  DOMAIN h[b.addr]),
              val |-> result.val]

\* all_kfs and a loaded catalogue, before line 243 merges them
InitMerge ==
    /\ \E ta \in Mappings({"x"}, MaxEntries), tb \in Mappings({"y"}, MaxEntries) :
          LET ba == Build(<<>>, ta)
              bb == Build(ba.heap, tb)
          IN  /\ heap = bb.heap
              /\ ma = ba.val
              /\ mb = bb.val
              /\ snap = [a |-> ta, b |-> tb]
    /\ mres = Unbound
    /\ pc = "merge"
    /\ results = EmptyDict /\ last = <<>> /\ kfs = EmptyDict /\ csv_out = <<>>
    /\ attributes = None /\ pool = None /\ totals = None /\ all_codes = None
    /\ table = None /\ flag_table = None /\ idx = 0 /\ calls = <<>>

\* line 243: all_kfs = dict_merge(all_kfs, load_known_failures(kf))
MergeCatalogue ==
    /\ pc = "merge"
    /\ LET m == dict_merge(heap, ma, mb)
       IN  heap' = m.heap /\ mres' = m.val
    /\ pc' = "merged"
    /\ UNCHANGED <<results, last, kfs, csv_out, tableVars, ma, mb, snap>>

NextMerge == MergeCatalogue

SpecMerge == InitMerge /\ [][NextMerge]_vars

-----------------------------------------------------------------------------
(* Properties of the loader, the classifier and the CSV report *)

InLoad == pc = "load" /\ last # <<>>

AfterRegistry == pc \in {"classify", "csv", "csv_rows", "csv_error", "done"}

ClassifiedTests ==
    IF AfterRegistry
    THEN {t \in DOMAIN results : Classified(results[t])}
    ELSE {}

\* C9, as stated: an element with at most one child of each kind is FAIL
\* when it has a failure or an error child, SKIP when it has a skipped
\* child, PASS otherwise; an element with more than one child of a kind
\* aborts the load, which returns no mapping.
C9_AsStated ==
    last # <<>> =>
        LET tc == last[1]
        IN  IF tc.nf <= 1 /\ tc.ne <= 1 /\ tc.ns <= 1
            THEN /\ pc = "load"
                 /\ results[tc.name].result =
                       (IF tc.nf = 1 \/ tc.ne = 1 THEN "FAIL"
                        ELSE IF tc.ns = 1 THEN "SKIP" ELSE "PASS")
            ELSE pc = "aborted" /\ results = EmptyDict

\* C9, amended: an element with at most one child of each kind is SKIP when
\* it has a skipped child (whatever its failure and error children), else
\* FAIL when it has a failure or an error child, else PASS; an element with
\* more than one child of a kind aborts the load, which returns no mapping.
C9_SkipWins ==
    last # <<>> =>
        LET tc == last[1]
        IN  IF tc.nf <= 1 /\ tc.ne <= 1 /\ tc.ns <= 1
            THEN /\ pc = "load"
                 /\ results[tc.name].result =
                       (IF tc.ns = 1 THEN "SKIP"
                        ELSE IF tc.nf = 1 \/ tc.ne = 1 THEN "FAIL" ELSE "PASS")
            ELSE pc = "aborted" /\ results = EmptyDict

\* a failed and skipped test case has been loaded as SKIP
C9_Witness ==
    /\ InLoad
    /\ last[1].nf = 1 /\ last[1].ne = 0 /\ last[1].ns = 1
    /\ results[last[1].name].result = "SKIP"

\* C1: a classified FAIL record whose test is in the registry with a status
\* other than KNOWN has report NEW_FAILURE.
C1_NonKnownIsNewFailure ==
    \A t \in ClassifiedTests :
        (/\ results[t].result = "FAIL"
         /\ t \in DOMAIN kfs
         /\ kfs[t]["status"] # "KNOWN")
            => results[t].report = "NEW_FAILURE"

\* C6: a classified FAIL record has report KNOWN_FAILURE when its test is in
\* the registry with status KNOWN, and NEW_FAILURE when its test is absent
\* from the registry.
C6_KnownAndAbsent ==
    \A t \in ClassifiedTests :
        results[t].result = "FAIL" =>
            /\ (t \in DOMAIN kfs /\ kfs[t]["status"] = "KNOWN")
                  => results[t].report = "KNOWN_FAILURE"
            /\ t \notin DOMAIN kfs => results[t].report = "NEW_FAILURE"

\* a FAIL record with a KNOWN entry and a FAIL record without entry have
\* both been classified
C6_Witness ==
    /\ \E t \in ClassifiedTests :
          /\ results[t].result = "FAIL"
          /\ t \in DOMAIN kfs /\ kfs[t]["status"] = "KNOWN"
          /\ results[t].report = "KNOWN_FAILURE"
    /\ \E t \in ClassifiedTests :
          /\ results[t].result = "FAIL"
          /\ t \notin DOMAIN kfs
          /\ results[t].report = "NEW_FAILURE"

\* C7: a classified record's report is one of the four result types; SKIP
\* gets SKIP and PASS gets PASS whatever the registry holds; and report is
\* SKIP only for result SKIP, PASS only for result PASS.
C7_ReportRange ==
    \A t \in ClassifiedTests :
        /\ results[t].report \in ResultTypeSet
        /\ results[t].result = "SKIP" => results[t].report = "SKIP"
        /\ results[t].result = "PASS" => results[t].report = "PASS"
        /\ results[t].report = "SKIP" => results[t].result = "SKIP"
        /\ results[t].report = "PASS" => results[t].result = "PASS"

\* C5: csv_report completes without error, and when it has completed it has
\* written the header followed by one row of four cells per outcome record.
C5_CsvCompletes ==
    /\ pc # "csv_error"
    /\ pc = "done" =>
          /\ Len(csv_out) = 1 + Cardinality(DOMAIN results)
          /\ csv_out[1] = fieldnames
          /\ \A t \in DOMAIN results :
                \E i \in 2..Len(csv_out) :
                    csv_out[i] = <<results[t].name, results[t].result,
                                   results[t].report, results[t].message>>

-----------------------------------------------------------------------------
(* Properties of detailed_results_table *)

InTable == pc \in {"flags", "method_resource", "other", "total", "table_done"}

RECURSIVE ColumnSum(_, _, _)
ColumnSum(rows, col, n) ==
    IF n = 0 THEN 0 ELSE rows[n][col].n + ColumnSum(rows, col, n - 1)

\* the emitted aggregation rows of the returned table: all but the header
\* and the "Total" row
EmittedRows == SubSeq(table, 2, Len(table) - 1)

CallsCounting(t) == {i \in 1..Len(calls) : t \in calls[i].counted}

\* C2: no test is counted by two get_row calls, a counted test has left the
\* working pool, each row's counts are those of the tests its call counted,
\* and in the returned table every test of the result set has been counted
\* by exactly one call.
C2_CountedOnce ==
    InTable =>
        /\ \A t \in Tests : Cardinality(CallsCounting(t)) <= 1
        /\ \A i \in 1..Len(calls) :
              /\ calls[i].counted \cap DOMAIN pool = {}
              /\ calls[i].counted \subseteq DOMAIN results
              /\ \A k \in 1..Len(result_types) :
                    calls[i].row[k + 1] =
                       Count(Cardinality({t \in calls[i].counted :
                                      results[t].report = result_types[k]}))
        /\ pc = "table_done" =>
              \A t \in DOMAIN results : Cardinality(CallsCounting(t)) = 1

\* the table has been returned for a test that is in the flag's group and
\* in both method groups, and was counted by the flag row
C2_Witness ==
    /\ pc = "table_done"
    /\ "flags" \in DOMAIN attributes
    /\ \E t \in DOMAIN results :
          /\ t \in attributes["flags"]["fA"]
          /\ t \in attributes["method"]["get"] \cap attributes["method"]["PUT"]
          /\ t \in calls[1].counted
          /\ Len(calls) = 4

\* C3: in the returned table the per-status counts of the emitted rows sum
\* to the number of outcome records, and each status cell of the "Total"
\* row is the sum of its column over the emitted rows.
C3_TotalsAddUp ==
    pc = "table_done" =>
        LET rows == EmittedRows
            total == table[Len(table)]
        IN  /\ ColumnSum(rows, 2, Len(rows)) + ColumnSum(rows, 3, Len(rows))
                 + ColumnSum(rows, 4, Len(rows)) + ColumnSum(rows, 5, Len(rows))
                    = Cardinality(DOMAIN results)
            /\ \A col \in 2..5 :
                  total[col] = Count(ColumnSum(rows, col, Len(rows)))

\* the table has been returned with a method x resource row computed but
\* not emitted, and another one emitted
C3_Witness ==
    /\ pc = "table_done"
    /\ "flags" \in DOMAIN attributes
    /\ Len(calls) = 4
    /\ Len(table) = 5
    /\ calls[2].counted # {}
    /\ calls[3].counted = {}
    /\ calls[4].counted # {}

\* the renderings in the Notes cell of a get_row call's row
Notes(i) == SeqToSet(calls[i].row[Len(calls[i].row)].s)

\* C4: the first call that collects a code renders the code's footnote
\* definition in its Notes cell, and every later call that collects the
\* code renders its back-reference.
C4_FirstSeenFootnote ==
    InTable =>
        \A i \in 1..Len(calls) : \A c \in calls[i].current_codes :
            IF \A j \in 1..(i - 1) : c \notin calls[j].current_codes
            THEN RefDef(c) \in Notes(i)
            ELSE RefBack(c) \in Notes(i)

\* C10: every row of the table has as many cells as the header row.
C10_RowWidth ==
    InTable => \A i \in 1..Len(table) : Len(table[i]) = Len(header)

-----------------------------------------------------------------------------
(* Properties of dict_merge *)

\* the merge of two trees as the specification words it: a value that is
\* no mapping replaces; otherwise a's keys that b lacks keep their value,
\* a key of both is merged when a's value is a mapping and is b's value
\* when not, and b's other keys come with b's value
RECURSIVE TreeMerge(_, _)
TreeMerge(x, y) ==
    IF ~IsDict(y) THEN y
    ELSE DTree([k \in (DOMAIN x.items) \cup (DOMAIN y.items) |->
                  IF k \notin DOMAIN y.items THEN x.items[k]
                  ELSE IF k \notin DOMAIN x.items THEN y.items[k]
                  ELSE IF IsDict(x.items[k])
                       THEN TreeMerge(x.items[k], y.items[k])
                       ELSE y.items[k]])

\* C8: dict_merge(a, b) returns a mapping whose keys are those of a and of
\* b; a key of a alone keeps a's value, a key of both holds the recursive
\* merge when a's value is a mapping and b's value when not, a key of b
\* alone holds b's value; and a and b hold after the call what they held
\* before it.
C8_MergeSemantics ==
    pc = "merged" =>
        LET a == snap.a
            b == snap.b
            r == Deref(heap, mres)
        IN  /\ IsDict(r)
            /\ DOMAIN r.items = (DOMAIN a.items) \cup (DOMAIN b.items)
            /\ \A k \in (DOMAIN a.items) \ (DOMAIN b.items) :
                  r.items[k] = a.items[k]
            /\ \A k \in (DOMAIN a.items) \cap (DOMAIN b.items) :
                  IF IsDict(a.items[k])
                  THEN r.items[k] = TreeMerge(a.items[k], b.items[k])
                  ELSE r.items[k] = b.items[k]
            /\ \A k \in (DOMAIN b.items) \ (DOMAIN a.items) :
                  r.items[k] = b.items[k]
            /\ Deref(heap, ma) = a
            /\ Deref(heap, mb) = b

\* a merge has returned where one key holds a mapping on both sides, the
\* two mappings having different keys, and another key holds a scalar on
\* both sides
C8_Witness ==
    /\ pc = "merged"
    /\ \E k1 \in Keys, k2 \in Keys :
          /\ k1 # k2
          /\ k1 \in DOMAIN snap.a.items /\ k1 \in DOMAIN snap.b.items
          /\ k2 \in DOMAIN snap.a.items /\ k2 \in DOMAIN snap.b.items
          /\ IsDict(snap.a.items[k1]) /\ IsDict(snap.b.items[k1])
          /\ DOMAIN snap.a.items[k1].items # DOMAIN snap.b.items[k1].items
          /\ DOMAIN snap.a.items[k1].items # {}
          /\ ~IsDict(snap.a.items[k2]) /\ ~IsDict(snap.b.items[k2])
          /\ Deref(heap, mres).items[k2] = STree("y")

Next ==
    \/ LoadTestcase
    \/ LoadReturn
    \/ LoadKnownFailures
    \/ ClassifyRecord
    \/ ClassifyDone
    \/ CsvWriteHeader
    \/ CsvWriteRow

Spec == Init /\ [][Next]_vars

=============================================================================
